---- MODULE Spec2Model ----
(***************************************************************************)
(* Model of src/app.py: the Streamlit "Agent Basket Report" page.          *)
(*                                                                         *)
(* The page holds a threshold widget, a free-text agent input and a run    *)
(* button.  Pressing the button runs ShoppingCartAnomalyAgent for at most  *)
(* max_turns model calls.  In each turn the language model either calls    *)
(* one of the two warehouse tools or emits its final message; the handler  *)
(* then shows st.info, st.json, st.write or st.error.                      *)
(*                                                                         *)
(* What the source fixes is modelled as written: the two SQL queries, the  *)
(* short-circuit of the name lookup, the turn budget, the handler's        *)
(* branches.  What the source leaves to the language model is a            *)
(* nondeterministic choice: whether it calls a tool again, whether it      *)
(* fetches names at all, when it stops, whether its final text is JSON,    *)
(* and the company_name it writes for a customer_sk it has no name for.    *)
(* Where the instructions are definite the model follows them: the first   *)
(* call is the orders call, the amount is the number in the user message,  *)
(* customer_sks are the distinct customer_sk values of the order list, and *)
(* a JSON answer holds one record per order of the list, in its order.     *)
(***************************************************************************)
EXTENDS Integers, Sequences, FiniteSets, TLC

VARIABLES
    fact,            \* rows of Fact_Sales (warehouse contents, fixed per behaviour)
    treshold,        \* st.number_input "Threshold Amount"
    user_content,    \* st.text_input "Agent input"
    pc,              \* "idle" | "running" | "shown"
    turn,            \* model calls made in the current run
    ordersCalls,     \* invocations of get_high_basket_value_orders in the run
    namesCalls,      \* invocations of get_customer_names_in_batch in the run
    namesQueries,    \* Dim_Customer queries issued by the last names-tool call
    orders,          \* last result of the orders tool, as the model sees it
    namesArg,        \* customer_sks of the last names-tool call
    inList,          \* formatted_sks of the last Dim_Customer query
    lookup,          \* last result of the names tool, as the model sees it
    warehouseFailed, \* a warehouse query raised during the run
    output,          \* ItemHelpers.text_message_outputs(result.new_items)
    exc,             \* exception raised by runner.run, or "none"
    display          \* what the page shows

vars == <<fact, treshold, user_content, pc, turn, ordersCalls, namesCalls,
          namesQueries, orders, namesArg, inList, lookup, warehouseFailed,
          output, exc, display>>

runVars == <<turn, ordersCalls, namesCalls, namesQueries, orders, namesArg,
             inList, lookup, warehouseFailed, output, exc>>

-----------------------------------------------------------------------------
(* Bounds of the model *)

MaxRows == 2          \* rows in Fact_Sales

(* Program constants *)

LIMIT == 5
max_turns == 10
DefaultThreshold == 300
ThresholdStep == 50
ThresholdMax == 400

\* Values of the threshold widget: from its default up to max_value in steps
\* (the widget has no min_value; the model does not go below the default).
Thresholds ==
    {t \in DefaultThreshold..ThresholdMax : (t - DefaultThreshold) % ThresholdStep = 0}

\* Numbers a user may type into the agent input instead of the default one.
TypedAmounts == {100}

-----------------------------------------------------------------------------
(* Warehouse contents *)

\* Dim_Product: p2 has no row, so the INNER JOIN drops its sales rows.
Dim_Product == [p \in {"p1"} |-> [product_name |-> "Pallet", purchase_price |-> 350]]

\* Dim_Customer: c2 has no row.
Dim_Customer == [c \in {"c1"} |-> "Acme Corp"]

Sale(o, c, p, q) ==
    [order_id |-> o, customer_sk |-> c, product_sk |-> p, quantity |-> q]

\* The sales rows a table is drawn from: two product lines of one order, a
\* second order of the same customer, an order of the customer without a
\* Dim_Customer row, and a row of the product without a Dim_Product row.
FactRows ==
    {Sale("o1", "c1", "p1", 1),
     Sale("o1", "c1", "p1", 2),
     Sale("o2", "c1", "p1", 1),
     Sale("o2", "c2", "p1", 2),
     Sale("o2", "c2", "p2", 2)}

FactTables == {T \in SUBSET FactRows : Cardinality(T) <= MaxRows}

-----------------------------------------------------------------------------
(* Helpers *)

SeqToSet(s) == {s[i] : i \in 1..Len(s)}

Min(a, b) == IF a < b THEN a ELSE b

\* All enumerations of a finite set as a sequence without repetition.
Enumerations(S) ==
    {s \in [1..Cardinality(S) -> S] : SeqToSet(s) = S}

-----------------------------------------------------------------------------
(* get_high_basket_value_orders: the SQL of lines 34-48 *)

\* FROM Fact_Sales INNER JOIN Dim_Product ON product_sk, with the SELECT list.
JoinedRows(T) ==
    {[order_id |-> r.order_id,
      customer_sk |-> r.customer_sk,
      quantity |-> r.quantity,
      product_name |-> Dim_Product[r.product_sk].product_name,
      purchase_price |-> Dim_Product[r.product_sk].purchase_price,
      basket_value |-> r.quantity * Dim_Product[r.product_sk].purchase_price]
        : r \in {x \in T : x.product_sk \in DOMAIN Dim_Product}}

\* WHERE (quantity * purchase_price) > amount
Where(rows, amount) == {r \in rows : r.basket_value > amount}

IsDescending(s) ==
    \A i \in 1..(Len(s) - 1) : s[i].basket_value >= s[i + 1].basket_value

OrderByAny(rows) == Enumerations(rows)

\* ORDER BY basket_value DESC: any order of the rows that is descending
\* (SQL leaves the order of ties open).
OrderByDesc(rows) == {s \in Enumerations(rows) : IsDescending(s)}

\* LIMIT 5
Limit(s) == SubSeq(s, 1, Min(LIMIT, Len(s)))

\* The record lists the tool can return for an amount.
get_high_basket_value_orders(T, amount) ==
    {Limit(s) : s \in OrderByDesc(Where(JoinedRows(T), amount))}

-----------------------------------------------------------------------------
(* get_customer_names_in_batch: lines 58-67 *)

RECURSIVE JoinQuoted(_)
\* ','.join([f"'{sk}'" for sk in customer_sks]), as a sequence of tokens
JoinQuoted(sks) ==
    IF sks = <<>> THEN <<>>
    ELSE IF Len(sks) = 1 THEN <<"'", sks[1], "'">>
    ELSE <<"'", sks[1], "'", ",">> \o JoinQuoted(Tail(sks))

\* The string literals of an IN (...) list: the token after each opening quote.
InListLiterals(tokens) ==
    {tokens[i] : i \in {j \in 1..Len(tokens) : j % 4 = 2}}

\* SELECT customer_sk, company_name FROM Dim_Customer WHERE customer_sk IN (...)
\* and dict(zip(df["customer_sk"], df["company_name"]))
CustomerQuery(tokens) ==
    [sk \in (InListLiterals(tokens) \cap DOMAIN Dim_Customer) |-> Dim_Customer[sk]]

QueriesPerId(customer_sks) == Len(customer_sks)

\* bq_client.query calls of one invocation: none for an empty list
\* ("if not customer_sks: return {}"), else the one IN query.
QueriesIssued(customer_sks) == IF customer_sks = <<>> THEN 0 ELSE 1

-----------------------------------------------------------------------------
(* The user message and what the language model reads from it *)

\* f"detect unusual basket values greater than {treshold}."
DefaultContent(t) ==
    <<"detect unusual basket values greater than", t, ".">>

\* The <threshold> the model puts into the orders call: the number of the message.
AmountOf(content) == content[2]

\* "Extract the unique customer_sks from the order list"
RECURSIVE UniqueCustomerSks(_, _)
UniqueCustomerSks(rows, seen) ==
    IF rows = <<>> THEN <<>>
    ELSE IF Head(rows).customer_sk \in seen
         THEN UniqueCustomerSks(Tail(rows), seen)
         ELSE <<Head(rows).customer_sk>>
                \o UniqueCustomerSks(Tail(rows), seen \cup {Head(rows).customer_sk})

\* company_name values the model may write when it has no name for a customer_sk
\* (the source names no default).
PlaceholderNames == {"UNKNOWN", "N/A"}

\* class AgentBasket, filled as in the instructions' example
AgentBasket(row, name) ==
    [order_id |-> row.order_id,
     company_name |-> name,
     basket_value |-> row.basket_value,
     issues |-> <<"High basket value">>]

\* "Combine order data then output a JSON array for each order"
CombineOrderData(rows, names, placeholder) ==
    [i \in 1..Len(rows) |->
        AgentBasket(rows[i],
                    IF rows[i].customer_sk \in DOMAIN names
                    THEN names[rows[i].customer_sk]
                    ELSE placeholder)]

-----------------------------------------------------------------------------
(* Text of the final message and the handler's reading of it *)

Punct(c) == [tok |-> c]
Object(r) == [tok |-> "object", value |-> r]

RECURSIVE Elements(_)
Elements(records) ==
    IF records = <<>> THEN <<>>
    ELSE IF Len(records) = 1 THEN <<Object(records[1])>>
    ELSE <<Object(records[1]), Punct(",")>> \o Elements(Tail(records))

\* The JSON text of an array of records, as a sequence of tokens.
JsonText(records) == <<Punct("[")>> \o Elements(records) \o <<Punct("]")>>

\* Text that is not JSON: a sentence in front of the array.
Commentary(records) == <<Punct("Here are the anomalies:")>> \o JsonText(records)

\* output == "[]"
IsEmptyArrayText(text) ==
    Len(text) = 2 /\ text[1].tok = "[" /\ text[2].tok = "]"

\* Whether json.loads(text) succeeds (for the texts of this model: an array).
JsonParses(text) ==
    /\ Len(text) >= 2
    /\ text[1].tok = "["
    /\ text[Len(text)].tok = "]"
    /\ \/ Len(text) = 2
       \/ /\ Len(text) % 2 = 1
          /\ \A i \in 2..(Len(text) - 1) :
                IF i % 2 = 0 THEN text[i].tok = "object" ELSE text[i].tok = ","

\* json.loads(text) of a text that parses
json_loads(text) ==
    [i \in 1..((Len(text) - 1) \div 2) |-> text[2 * i].value]

ShowError(e) == [widget |-> "error", body |-> e]

ShowRawAsError(text) == [widget |-> "error", body |-> "MalformedResponse"]

\* except Exception: st.write(output)
ShowRaw(text) == [widget |-> "raw", body |-> text]

\* Lines 156-167: what the handler shows for the text of a run that returned.
Present(text) ==
    IF text = <<>> \/ IsEmptyArrayText(text)
    THEN [widget |-> "info", body |-> "No high-value orders found."]
    ELSE IF JsonParses(text)
         THEN [widget |-> "json", body |-> json_loads(text)]
         ELSE ShowRaw(text)

ShowInfoOnException(e) == [widget |-> "info", body |-> "No high-value orders found."]

\* Lines 168-169: except Exception as e: st.error(...)
OnException(e) == ShowError(e)

Blank == [widget |-> "none", body |-> ""]

-----------------------------------------------------------------------------
(* State *)

NoOrders == [status |-> "none", rows |-> <<>>]
NoLookup == [status |-> "none", names |-> <<>>]

\* The values of the run's variables before its first turn.
FreshRun ==
    /\ turn' = 0
    /\ ordersCalls' = 0
    /\ namesCalls' = 0
    /\ namesQueries' = 0
    /\ orders' = NoOrders
    /\ namesArg' = <<>>
    /\ inList' = <<>>
    /\ lookup' = NoLookup
    /\ warehouseFailed' = FALSE
    /\ output' = <<>>
    /\ exc' = "none"

\* The page as first rendered: the widgets hold their defaults, nothing is shown.
Init ==
    /\ fact \in FactTables
    /\ treshold = DefaultThreshold
    /\ user_content = DefaultContent(DefaultThreshold)
    /\ pc = "idle"
    /\ turn = 0
    /\ ordersCalls = 0
    /\ namesCalls = 0
    /\ namesQueries = 0
    /\ orders = NoOrders
    /\ namesArg = <<>>
    /\ inList = <<>>
    /\ lookup = NoLookup
    /\ warehouseFailed = FALSE
    /\ output = <<>>
    /\ exc = "none"
    /\ display = Blank

-----------------------------------------------------------------------------
(* The widgets.  Any interaction reruns the script with run_btn False, so   *)
(* whatever a previous run showed is gone.                                  *)

\* The user steps the threshold widget.  The text input's default value
\* changes with it, so the text input is rebuilt holding the new default.
SetThreshold(t) ==
    /\ pc # "running"
    /\ t \in Thresholds
    /\ t = treshold + ThresholdStep \/ t = treshold - ThresholdStep
    /\ treshold' = t
    /\ user_content' = DefaultContent(t)
    /\ pc' = "idle"
    /\ display' = Blank
    /\ FreshRun
    /\ UNCHANGED fact

\* The user types another number into the agent input.
EditAgentInput(a) ==
    /\ pc # "running"
    /\ a # AmountOf(user_content)
    /\ user_content' = <<user_content[1], a, user_content[3]>>
    /\ pc' = "idle"
    /\ display' = Blank
    /\ FreshRun
    /\ UNCHANGED <<fact, treshold>>

\* "Run Detection" is pressed: runner.run starts.
PressRun ==
    /\ pc # "running"
    /\ pc' = "running"
    /\ display' = Blank
    /\ FreshRun
    /\ UNCHANGED <<fact, treshold, user_content>>

-----------------------------------------------------------------------------
(* One turn of runner.run: a model call and the tool call it asks for *)

CanTurn == pc = "running" /\ turn < max_turns

\* "Wait for the tool result.  Do NOT call any other tools yet.": the orders
\* call comes first.
OrdersCallDone == orders.status # "none"

\* The model calls get_high_basket_value_orders and the query returns rows.
OrdersToolReturns ==
    /\ CanTurn
    /\ \E rows \in get_high_basket_value_orders(fact, AmountOf(user_content)) :
          orders' = [status |-> "ok", rows |-> rows]
    /\ turn' = turn + 1
    /\ ordersCalls' = ordersCalls + 1
    /\ UNCHANGED <<fact, treshold, user_content, pc, namesCalls, namesQueries,
                   namesArg, inList, lookup, warehouseFailed, output, exc, display>>

\* The model calls get_high_basket_value_orders and bq_client.query raises.
\* @function_tool hands the error text to the model as the tool's result;
\* the run goes on.
OrdersToolRaises ==
    /\ CanTurn
    /\ orders' = [status |-> "error", rows |-> <<>>]
    /\ warehouseFailed' = TRUE
    /\ turn' = turn + 1
    /\ ordersCalls' = ordersCalls + 1
    /\ UNCHANGED <<fact, treshold, user_content, pc, namesCalls, namesQueries,
                   namesArg, inList, lookup, output, exc, display>>

\* The customer_sks the model passes: those of the order list it has.
CustomerSksOfOrders == UniqueCustomerSks(orders.rows, {})

\* The model calls get_customer_names_in_batch and the call returns a mapping:
\* {} without a query for an empty list, else the result of one IN query.
NamesToolReturns ==
    /\ CanTurn
    /\ OrdersCallDone
    /\ namesArg' = CustomerSksOfOrders
    /\ namesQueries' = QueriesIssued(CustomerSksOfOrders)
    /\ IF namesQueries' > 0
       THEN /\ inList' = JoinQuoted(CustomerSksOfOrders)
            /\ lookup' = [status |-> "ok", names |-> CustomerQuery(inList')]
       ELSE /\ inList' = <<>>
            /\ lookup' = [status |-> "ok", names |-> <<>>]
    /\ turn' = turn + 1
    /\ namesCalls' = namesCalls + 1
    /\ UNCHANGED <<fact, treshold, user_content, pc, ordersCalls, orders,
                   warehouseFailed, output, exc, display>>

\* The model calls get_customer_names_in_batch and bq_client.query raises.
NamesToolRaises ==
    /\ CanTurn
    /\ OrdersCallDone
    /\ QueriesIssued(CustomerSksOfOrders) > 0
    /\ namesArg' = CustomerSksOfOrders
    /\ inList' = JoinQuoted(CustomerSksOfOrders)
    /\ namesQueries' = QueriesIssued(CustomerSksOfOrders)
    /\ lookup' = [status |-> "error", names |-> <<>>]
    /\ warehouseFailed' = TRUE
    /\ turn' = turn + 1
    /\ namesCalls' = namesCalls + 1
    /\ UNCHANGED <<fact, treshold, user_content, pc, ordersCalls, orders,
                   output, exc, display>>

\* The records of the model's answer: one per order of the list it has.
AnswerRecords(placeholder) ==
    CombineOrderData(orders.rows, lookup.names, placeholder)

\* The texts the model may end the run with: the JSON array, the array behind
\* a sentence, or no text at all.
FinalTexts ==
    UNION {{JsonText(AnswerRecords(n)), Commentary(AnswerRecords(n))}
              : n \in PlaceholderNames}
      \cup {<<>>}

\* The model emits its final message; runner.run returns and the handler shows it.
FinalOutput ==
    /\ CanTurn
    /\ OrdersCallDone
    /\ \E text \in FinalTexts :
          /\ output' = text
          /\ display' = Present(text)
    /\ turn' = turn + 1
    /\ pc' = "shown"
    /\ UNCHANGED <<fact, treshold, user_content, ordersCalls, namesCalls,
                   namesQueries, orders, namesArg, inList, lookup,
                   warehouseFailed, exc>>

\* The model call itself raises (the API is unreachable): runner.run raises.
ModelCallRaises ==
    /\ CanTurn
    /\ exc' = "APIConnectionError"
    /\ display' = OnException(exc')
    /\ turn' = turn + 1
    /\ pc' = "shown"
    /\ UNCHANGED <<fact, treshold, user_content, ordersCalls, namesCalls,
                   namesQueries, orders, namesArg, inList, lookup,
                   warehouseFailed, output>>

\* max_turns model calls were made and none was final: runner.run raises.
MaxTurnsExceeded ==
    /\ pc = "running"
    /\ turn >= max_turns
    /\ exc' = "MaxTurnsExceeded"
    /\ display' = OnException(exc')
    /\ pc' = "shown"
    /\ UNCHANGED <<fact, treshold, user_content, turn, ordersCalls, namesCalls,
                   namesQueries, orders, namesArg, inList, lookup,
                   warehouseFailed, output>>

RunStep ==
    \/ OrdersToolReturns
    \/ OrdersToolRaises
    \/ NamesToolReturns
    \/ NamesToolRaises
    \/ FinalOutput
    \/ ModelCallRaises
    \/ MaxTurnsExceeded

Next ==
    \/ \E t \in Thresholds : SetThreshold(t)
    \/ \E a \in TypedAmounts : EditAgentInput(a)
    \/ PressRun
    \/ OrdersToolReturns
    \/ OrdersToolRaises
    \/ NamesToolReturns
    \/ NamesToolRaises
    \/ FinalOutput
    \/ ModelCallRaises
    \/ MaxTurnsExceeded

Spec == Init /\ [][Next]_vars

\* Every call of a run returns or raises, so a started run keeps taking steps.
FairSpec == Spec /\ WF_vars(RunStep)

-----------------------------------------------------------------------------
(* Properties *)

Finished == pc = "shown" /\ exc = "none"
ShowsReport == pc = "shown" /\ display.widget = "json"

\* C1: in every run the orders fetch is invoked exactly once and the name
\* fetch at most once: once when the order batch is non-empty, never when it
\* is empty.
C1_SinglePass ==
    /\ ordersCalls <= 1
    /\ namesCalls <= 1
    /\ Finished =>
          /\ ordersCalls = 1
          /\ namesCalls = (IF orders.rows # <<>> THEN 1 ELSE 0)

\* C2: every record of a displayed report has a basket_value strictly greater
\* than the value of the threshold widget.
C2_AboveThreshold ==
    ShowsReport =>
        \A i \in 1..Len(display.body) : display.body[i].basket_value > treshold

\* C3: a run in which a warehouse call failed ends with an error message,
\* never with the "no anomalies" message or a report.
C3_FailureShownAsError ==
    pc = "shown" /\ warehouseFailed => display.widget = "error"

C5_RunTerminates ==
    /\ (pc = "running") ~> (pc = "shown")
    /\ [][pc = "running" /\ turn = max_turns =>
            pc' = "shown" /\ exc' = "MaxTurnsExceeded" /\ display'.widget = "error"]_vars
    /\ [](turn <= max_turns)

C5_Witness ==
    /\ pc = "shown"
    /\ turn = max_turns
    /\ exc = "MaxTurnsExceeded"
    /\ display.widget = "error"

\* C6: a run whose orders fetch returned no rows ends without a name fetch
\* and shows the "no anomalies" message.
C6_EmptyShortCircuit ==
    Finished /\ orders.status = "ok" /\ orders.rows = <<>> =>
        namesCalls = 0 /\ display.widget = "info"

\* C7: a name fetch for no customer ids issues no query and returns the empty
\* mapping; a name fetch for some ids issues exactly one query, whose IN list
\* holds exactly the ids supplied.
C7_BatchLookup ==
    namesCalls > 0 =>
        IF namesArg = <<>>
        THEN namesQueries = 0 /\ lookup = [status |-> "ok", names |-> <<>>]
        ELSE namesQueries = 1 /\ InListLiterals(inList) = SeqToSet(namesArg)

C7_Witness ==
    /\ namesCalls > 1
    /\ Len(namesArg) = 2
    /\ namesQueries = 1
    /\ lookup.status = "ok"
    /\ DOMAIN lookup.names = {"c1"}

\* C8: a displayed report holds one record per fetched order, in the order
\* fetched, with the company name the lookup returned for the order's
\* customer_sk, or "UNKNOWN" when the lookup has none.
C8_OneRecordPerOrder ==
    ShowsReport =>
        /\ Len(display.body) = Len(orders.rows)
        /\ \A i \in 1..Len(display.body) :
              /\ display.body[i].order_id = orders.rows[i].order_id
              /\ display.body[i].company_name =
                    (IF orders.rows[i].customer_sk \in DOMAIN lookup.names
                     THEN lookup.names[orders.rows[i].customer_sk]
                     ELSE "UNKNOWN")

C10_NoDuplicateOrderId ==
    ShowsReport =>
        \A i, j \in 1..Len(display.body) :
            i # j => display.body[i].order_id # display.body[j].order_id

====
